---- MODULE Spec2Model ----
(***************************************************************************)
(* Model of the STEM tutor backend: the detection reducer and the label    *)
(* smoother of FaceRecognitionYolo.py, the top-k ranker of                 *)
(* topic_classifier.py, and the prompt compiler and request handlers of    *)
(* backend_api.py.                                                         *)
(*                                                                         *)
(* Conventions.                                                            *)
(*   - A float confidence or probability c is the integer 1000*c           *)
(*     (thousandths), so 0.3 is 300 and 0.825 is 825.                      *)
(*   - Optional[T] is a set: None is {} and a present value v is {v}.      *)
(*   - A Python str on which the code performs character operations        *)
(*     (strip, lower) is a sequence of one-character strings; other texts  *)
(*     are TLA+ strings.                                                   *)
(*   - A Python list is a sequence; the 0-based index i is position i+1.   *)
(***************************************************************************)
EXTENDS Integers, Sequences, FiniteSets, TLC

VARIABLES
    names,               \* recognizer.model.names: id -> label table (dict or list)
    smoothing_window,    \* FaceEmotionRecognizer.smoothing_window
    _label_history,      \* FaceEmotionRecognizer._label_history (deque, maxlen)
    window_arg,          \* the smoothing_window argument the constructor was given
    observed,            \* history variable: every label ever appended, in order
    webcam,              \* position of run_webcam: "idle", "running", "stopped"
    input,               \* the arguments of the pure-function specifications
    ret,                 \* the last call and what it returned
    recognizer,          \* backend_api.recognizer: None or the loaded recognizer
    current_emotion,     \* backend_api.current_emotion: Optional[str]
    emotion_confidence,  \* backend_api.emotion_confidence
    topic_clf,           \* backend_api.topic_clf: None or the loaded classifier
    current_topic,       \* backend_api.current_topic: Optional[str]
    topic_confidence,    \* backend_api.topic_confidence
    api_key,             \* the environment variable OPENAI_API_KEY
    _openai_client,      \* backend_api._openai_client: None or the client
    workers,             \* threadpool: each worker's position in a sync handler and its locals
    written              \* history variable: the (label, confidence) pairs requests set out to write

recVars == <<names, smoothing_window, _label_history, window_arg, observed, webcam>>

emotionSlot == <<current_emotion, emotion_confidence>>

topicSlot == <<current_topic, topic_confidence>>

threadVars == <<workers, written>>

apiVars == <<recognizer, topic_clf, api_key, _openai_client, emotionSlot, topicSlot, threadVars>>

vars == <<recVars, input, ret, apiVars>>

----------------------------------------------------------------------------
(* Optional values *)

None == {}

Some(v) == {v}

Get(o) == CHOOSE v \in o : TRUE

Max2(a, b) == IF a >= b THEN a ELSE b

Min2(a, b) == IF a <= b THEN a ELSE b

----------------------------------------------------------------------------
(* Bounds of the model *)

MaxDet == 2          \* detections in one inference pass
MaxWindow == 3       \* the smoothing_window argument ranges over 0..MaxWindow
MaxFrames == 4       \* labels appended by one run of the webcam loop

(* Sample confidences of detections: below, at and above the 0.3 threshold. *)
DetConfs == {200, 300, 700}

(* Class ids of detections: 7 is in no table. *)
DetClasses == {0, 1, 7}

----------------------------------------------------------------------------
(* Strings as character sequences *)

s_happy == <<"h","a","p","p","y">>
s_sad == <<"s","a","d">>
s_angry == <<"a","n","g","r","y">>
s_surprised == <<"s","u","r","p","r","i","s","e","d">>
s_fearful == <<"f","e","a","r","f","u","l">>
s_disgusted == <<"d","i","s","g","u","s","t","e","d">>
s_neutral == <<"n","e","u","t","r","a","l">>
s_Unknown == <<"U","n","k","n","o","w","n">>
s_Sad == <<"S","a","d">>

(* The id -> label table of the loaded network (external data): as a dict    *)
(* (what ultralytics provides) and as a list (the other branch of            *)
(* _class_name_from_id).                                                     *)
NamesDict == [kind |-> "dict", table |-> <<s_happy, s_Sad>>]

NamesList == [kind |-> "list", table |-> <<s_happy, s_Sad>>]

(* Keys of the table: ids 0..len-1 in both representations. *)
HasId(nm, class_id) == class_id >= 0 /\ class_id < Len(nm.table)

----------------------------------------------------------------------------
(* FaceEmotionRecognizer: detection reducer *)

(* A slip that takes the last maximal element instead of the first. *)
ArgmaxLast(v) ==
    CHOOSE i \in 0..(Len(v) - 1) :
        /\ \A j \in 0..(Len(v) - 1) : v[j + 1] <= v[i + 1]
        /\ \A j \in (i + 1)..(Len(v) - 1) : v[j + 1] < v[i + 1]

(* tensor.argmax(): the 0-based index of the first maximal element. *)
Argmax(v) ==
    CHOOSE i \in 0..(Len(v) - 1) :
        /\ \A j \in 0..(Len(v) - 1) : v[j + 1] <= v[i + 1]
        /\ \A j \in 0..(i - 1) : v[j + 1] < v[i + 1]

_class_name_from_id(nm, class_id) ==
    IF nm.kind = "dict"
    THEN IF HasId(nm, class_id) THEN nm.table[class_id + 1] ELSE s_neutral
    ELSE IF nm.kind = "list" /\ 0 <= class_id /\ class_id < Len(nm.table)
         THEN nm.table[class_id + 1]
         ELSE s_neutral

ConfOf(boxes) == [i \in 1..Len(boxes) |-> boxes[i].conf]

(* boxes is Optional: None, or the sequence of detections [conf, cls].      *)
predict_with_confidence(nm, boxes) ==
    IF boxes # None /\ Len(Get(boxes)) > 0
    THEN LET b == Get(boxes)
             best_idx == Argmax(ConfOf(b))
             confidence == b[best_idx + 1].conf
             class_id == b[best_idx + 1].cls
         IN  <<_class_name_from_id(nm, class_id), confidence>>
    ELSE <<s_neutral, 0>>

predict(nm, boxes) == predict_with_confidence(nm, boxes)[1]

----------------------------------------------------------------------------
(* FaceEmotionRecognizer: label smoother *)

(* A slip that keeps the oldest entries and drops the new one when full. *)
DequeAppendKeepOld(d, x, maxlen) ==
    IF Len(d) >= maxlen THEN d ELSE Append(d, x)

(* deque(maxlen=n).append(x): the oldest entry leaves when the deque is full. *)
DequeAppend(d, x, maxlen) ==
    IF maxlen = 0 THEN d
    ELSE IF Len(d) = maxlen THEN Append(Tail(d), x)
    ELSE Append(d, x)

(* Counter(iterable): label -> count, a dict in order of first occurrence,   *)
(* here the sequence of <<label, count>> pairs in that order.                *)
RECURSIVE Counter(_)
Counter(h) ==
    IF h = <<>> THEN <<>>
    ELSE LET init == SubSeq(h, 1, Len(h) - 1)
             x == h[Len(h)]
             c == Counter(init)
         IN  IF \E i \in 1..Len(c) : c[i][1] = x
             THEN [i \in 1..Len(c) |->
                      IF c[i][1] = x THEN <<x, c[i][2] + 1>> ELSE c[i]]
             ELSE Append(c, <<x, 1>>)

(* A slip that returns the last item of maximal count (a reversed sort). *)
most_common_1_last(c) ==
    LET i == CHOOSE k \in 1..Len(c) :
                 /\ \A j \in 1..Len(c) : c[j][2] <= c[k][2]
                 /\ \A j \in (k + 1)..Len(c) : c[j][2] < c[k][2]
    IN  <<c[i]>>

(* Counter.most_common(1): heapq.nlargest(1, items, key=count), which is     *)
(* max(items, key=count): the first item, in dict order, of maximal count.   *)
most_common_1(c) ==
    LET i == CHOOSE k \in 1..Len(c) :
                 /\ \A j \in 1..Len(c) : c[j][2] <= c[k][2]
                 /\ \A j \in 1..(k - 1) : c[j][2] < c[k][2]
    IN  <<c[i]>>

smoothed_label_of(h) == most_common_1(Counter(h))[1][1]

(* The threshold run_webcam is called with (its default, 0.3). *)
WebcamThreshold == 300

(* The threadpool that runs the synchronous handlers. *)
MaxThreads == 2

Threads == 1..MaxThreads

(* No synchronous handler is running; the topic slot holds the module-level  *)
(* pair.                                                                     *)
ThreadsIdle ==
    /\ workers = [t \in Threads |-> [pc |-> "idle"]]
    /\ written = { <<None, 0>> }

(* The process before startup_event: no model loaded, the state slots at     *)
(* their module-level values.                                                *)
ApiIdle ==
    /\ ThreadsIdle
    /\ recognizer = None
    /\ topic_clf = None
    /\ current_emotion = None
    /\ emotion_confidence = 0
    /\ current_topic = None
    /\ topic_confidence = 0
    /\ api_key = None
    /\ _openai_client = None

(* The smoothing_window startup_event constructs the recognizer with. *)
BackendSmoothingWindow == 3

(* __init__: smoothing_window = max(1, int(smoothing_window)) and an empty   *)
(* deque of that maxlen.                                                     *)
RecognizerInit(sw) ==
    /\ window_arg = sw
    /\ smoothing_window = Max2(1, sw)
    /\ _label_history = <<>>
    /\ observed = <<>>
    /\ webcam = "idle"

BoxesInputs ==
    {None} \cup
    { Some(b) : b \in UNION { [1..n -> [conf : DetConfs, cls : DetClasses]] : n \in 0..MaxDet } }

(* run_webcam up to the loop: the camera opens or the method returns. *)
WebcamStart ==
    /\ webcam = "idle"
    /\ \E opened \in BOOLEAN :
          /\ webcam' = IF opened THEN "running" ELSE "stopped"
          /\ ret' = [op |-> "run_webcam", event |-> IF opened THEN "started" ELSE "no_camera"]
    /\ UNCHANGED <<names, smoothing_window, _label_history, window_arg, observed, input, apiVars>>

(* One iteration of the loop on a frame that is None: break. *)
WebcamNoFrame ==
    /\ webcam = "running"
    /\ webcam' = "stopped"
    /\ ret' = [op |-> "run_webcam", event |-> "no_frame"]
    /\ UNCHANGED <<names, smoothing_window, _label_history, window_arg, observed, input, apiVars>>

(* One iteration of the loop on a frame with the detections `boxes`;        *)
(* `quit` is the key check at the end of the iteration.                     *)
WebcamFrame ==
    /\ webcam = "running"
    /\ Len(observed) < MaxFrames
    /\ \E boxes \in BoxesInputs, quit \in BOOLEAN :
          LET has == boxes # None /\ Len(Get(boxes)) > 0
              b == Get(boxes)
              best_idx == Argmax(ConfOf(b))
              accept == has /\ b[best_idx + 1].conf >= WebcamThreshold
              class_id == b[best_idx + 1].cls
              label == IF HasId(names, class_id)
                       THEN names.table[class_id + 1] ELSE s_Unknown
              hist == DequeAppend(_label_history, label, smoothing_window)
          IN  IF accept /\ names.kind # "dict"
              THEN \* names.get on a list: AttributeError leaves the loop
                   /\ webcam' = "stopped"
                   /\ ret' = [op |-> "run_webcam", event |-> "AttributeError"]
                   /\ UNCHANGED <<_label_history, observed>>
              ELSE IF accept
              THEN /\ _label_history' = hist
                   /\ observed' = Append(observed, label)
                   /\ webcam' = IF quit THEN "stopped" ELSE "running"
                   /\ ret' = [op |-> "run_webcam", event |-> "label",
                              class_id |-> class_id,
                              label |-> label,
                              smoothed_label |-> smoothed_label_of(hist)]
              ELSE /\ webcam' = IF quit THEN "stopped" ELSE "running"
                   /\ ret' = [op |-> "run_webcam", event |-> "no_label"]
                   /\ UNCHANGED <<_label_history, observed>>
    /\ UNCHANGED <<names, smoothing_window, window_arg, input, apiVars>>

InitSmoother ==
    /\ names \in {NamesDict, NamesList}
    /\ \E sw \in 0..MaxWindow : RecognizerInit(sw)
    /\ input = None
    /\ ret = [op |-> "init"]
    /\ ApiIdle

NextSmoother ==
    \/ WebcamStart
    \/ WebcamNoFrame
    \/ WebcamFrame

SpecSmoother == InitSmoother /\ [][NextSmoother]_vars

(* The reducer as a pure function: the detections of one inference pass are  *)
(* drawn at the start, the two public methods are applied to them.           *)
PredictWithConfidence ==
    /\ input # None
    /\ ret' = [op |-> "predict_with_confidence",
               result |-> predict_with_confidence(names, Get(input))]
    /\ UNCHANGED <<recVars, input, apiVars>>

Predict ==
    /\ input # None
    /\ ret' = [op |-> "predict", result |-> predict(names, Get(input))]
    /\ UNCHANGED <<recVars, input, apiVars>>

InitReducer ==
    /\ names \in {NamesDict, NamesList}
    /\ RecognizerInit(BackendSmoothingWindow)
    /\ input \in { Some(b) : b \in BoxesInputs }
    /\ ret = [op |-> "init"]
    /\ ApiIdle

NextReducer ==
    \/ PredictWithConfidence
    \/ Predict

SpecReducer == InitReducer /\ [][NextReducer]_vars

----------------------------------------------------------------------------
(* TopicClassifier *)

MaxClasses == 3      \* classes of the topic model
MaxK == 4            \* the k argument ranges over -MaxK..MaxK

AllClassNames == <<"algebra", "biology", "chemistry", "geometry", "physics", "zoology">>

(* Sample probabilities; a vector need not sum to 1. *)
ProbVals == {100, 300, 600}

(* Sample decision scores. *)
ScoreVals == {0, 1, 3}

(* exp(-d) in thousandths for the score differences d that occur. *)
ExpNeg(d) == CASE d = 0 -> 1000 [] d = 1 -> 368 [] d = 2 -> 135 [] d = 3 -> 50 [] OTHER -> 0

RECURSIVE SumSeq(_)
SumSeq(q) == IF q = <<>> THEN 0 ELSE q[1] + SumSeq(Tail(q))

MaxOf(q) == CHOOSE m \in { q[i] : i \in 1..Len(q) } : \A i \in 1..Len(q) : q[i] <= m

(* e = exp(scores - max); e / sum(e), along the row. *)
Softmax(scores) ==
    LET e == [i \in 1..Len(scores) |-> ExpNeg(MaxOf(scores) - scores[i])]
    IN  [i \in 1..Len(scores) |-> (e[i] * 1000) \div SumSeq(e)]

(* _proba(X)[0]. clf.model is what the fitted model answers for the text:    *)
(*   "predict_proba"         out is the probability row;                     *)
(*   "decision_function"     out is the row of scores (2-D result);          *)
(*   "decision_function_1d"  out is <<score>>: a 1-D result is reshaped to   *)
(*                           one column, so the row has a single entry;      *)
(*   "none"                  neither method: the uniform row.                *)
_proba(clf) ==
    IF clf.kind = "predict_proba" THEN clf.out
    ELSE IF clf.kind \in {"decision_function", "decision_function_1d"} THEN Softmax(clf.out)
    ELSE LET n_classes == IF clf.class_names # <<>> THEN Len(clf.class_names) ELSE 1
         IN  [i \in 1..n_classes |-> 1000 \div n_classes]

(* np.argmax: the 0-based index of the first maximal entry. *)
np_argmax(v) ==
    CHOOSE i \in 0..(Len(v) - 1) :
        /\ \A j \in 0..(Len(v) - 1) : v[j + 1] <= v[i + 1]
        /\ \A j \in 0..(i - 1) : v[j + 1] < v[i + 1]

(* The label of class index i: class_names[i] if class_names else str(i). *)
ClassLabel(clf, i) == IF clf.class_names # <<>> THEN clf.class_names[i + 1] ELSE ToString(i)

(* predict(text) -> (label, conf) *)
topic_predict(clf) ==
    LET proba == _proba(clf)
        idx == np_argmax(proba)
    IN  <<ClassLabel(clf, idx), proba[idx + 1]>>

Permutations0(n) ==
    { f \in [1..n -> 0..(n - 1)] : \A i, j \in 1..n : i # j => f[i] # f[j] }

(* np.argsort(-proba) with the default kind ("quicksort", not a stable       *)
(* sort): every ordering of the indices by descending probability is a       *)
(* result the library may produce; the order among equal entries is not      *)
(* determined.                                                               *)
argsort_neg(proba) ==
    { f \in Permutations0(Len(proba)) :
        \A i, j \in 1..Len(proba) : i < j => proba[f[i] + 1] >= proba[f[j] + 1] }

(* seq[:k] *)
SliceTo(q, k) ==
    IF k >= 0 THEN SubSeq(q, 1, Min2(k, Len(q)))
    ELSE SubSeq(q, 1, Max2(Len(q) + k, 0))

(* top_k(text, k), given the result `order` of the argsort. *)
top_k(clf, k, order) ==
    LET proba == _proba(clf)
        indices == SliceTo(order, k)
    IN  [n \in 1..Len(indices) |->
            [label |-> ClassLabel(clf, indices[n]), prob |-> proba[indices[n] + 1]]]

(* The classifiers and texts of the model: a vocabulary of n classes (or no  *)
(* class names at all) and the model's answer for the text.                  *)
Classifiers ==
    UNION { LET nm == {SubSeq(AllClassNames, 1, n), <<>>}
            IN  { [class_names |-> c, kind |-> "predict_proba", out |-> v] :
                      c \in nm, v \in [1..n -> ProbVals] }
                \cup { [class_names |-> c, kind |-> "decision_function", out |-> v] :
                      c \in nm, v \in [1..n -> ScoreVals] }
                \cup { [class_names |-> c, kind |-> "decision_function_1d", out |-> <<v>>] :
                      c \in nm, v \in ScoreVals }
                \cup { [class_names |-> c, kind |-> "none", out |-> <<>>] : c \in nm }
          : n \in 1..MaxClasses }

TopicPredict ==
    /\ input # None
    /\ ret' = [op |-> "predict", result |-> topic_predict(Get(input))]
    /\ UNCHANGED <<recVars, input, apiVars>>

TopK ==
    /\ input # None
    /\ \E k \in (-MaxK)..MaxK :
         \E order \in argsort_neg(_proba(Get(input))) :
            ret' = [op |-> "top_k", k |-> k, result |-> top_k(Get(input), k, order)]
    /\ UNCHANGED <<recVars, input, apiVars>>

InitTopK ==
    /\ names = NamesDict
    /\ RecognizerInit(BackendSmoothingWindow)
    /\ input \in { Some(c) : c \in Classifiers }
    /\ ret = [op |-> "init"]
    /\ ApiIdle

NextTopK ==
    \/ TopicPredict
    \/ TopK

SpecTopK == InitTopK /\ [][NextTopK]_vars

----------------------------------------------------------------------------
(* backend_api: the prompt compiler *)

s_tired == <<"t","i","r","e","d">>
s_HAPPY == <<"H","A","P","P","Y">>
s_SAD == <<"S","A","D">>
s_Happy_padded == <<" ","H","a","p","p","y"," ">>
s_blank == <<" "," ">>
s_empty == <<>>

EmotionKeys ==
    {s_happy, s_sad, s_angry, s_surprised, s_fearful, s_disgusted, s_neutral}

EMOTION_CONTEXTS ==
    [key \in EmotionKeys |->
        CASE key = s_happy ->
               [context |-> "User appears happy and engaged. Great time for learning!",
                suggestions |-> <<"Ask about advanced topics",
                                  "Suggest challenging problems",
                                  "Encourage exploration">>]
          [] key = s_sad ->
               [context |-> "User seems sad or frustrated. Offer encouragement and support.",
                suggestions |-> <<"Break down complex topics into smaller steps",
                                  "Provide positive reinforcement",
                                  "Suggest taking a break if needed">>]
          [] key = s_angry ->
               [context |-> "User appears frustrated or angry. Approach with patience.",
                suggestions |-> <<"Acknowledge their frustration",
                                  "Offer alternative explanations",
                                  "Suggest simpler approaches">>]
          [] key = s_surprised ->
               [context |-> "User seems surprised. They might have discovered something new!",
                suggestions |-> <<"Ask what surprised them",
                                  "Explain the concept in detail",
                                  "Connect to related topics">>]
          [] key = s_fearful ->
               [context |-> "User appears anxious or fearful about the topic.",
                suggestions |-> <<"Provide reassurance",
                                  "Start with basics",
                                  "Offer step-by-step guidance">>]
          [] key = s_disgusted ->
               [context |-> "User seems displeased with the current topic or approach.",
                suggestions |-> <<"Ask what they'd prefer to learn",
                                  "Try a different teaching method",
                                  "Find more engaging examples">>]
          [] OTHER ->
               [context |-> "User appears neutral and focused.",
                suggestions |-> <<"Continue with current approach",
                                  "Ask engaging questions",
                                  "Provide clear explanations">>]]

UpperLetters ==
    <<"A","B","C","D","E","F","G","H","I","J","K","L","M",
      "N","O","P","Q","R","S","T","U","V","W","X","Y","Z">>

LowerLetters ==
    <<"a","b","c","d","e","f","g","h","i","j","k","l","m",
      "n","o","p","q","r","s","t","u","v","w","x","y","z">>

Whitespace == {" ", "\t", "\n", "\r"}

LowerOf ==
    [c \in { UpperLetters[i] : i \in 1..26 } |->
        LowerLetters[CHOOSE i \in 1..26 : UpperLetters[i] = c]]

LowerChar(c) == IF c \in DOMAIN LowerOf THEN LowerOf[c] ELSE c

(* A slip that compares the label as given. *)
lower_missing(str) == str

(* str.lower() *)
lower(str) == [i \in 1..Len(str) |-> LowerChar(str[i])]

(* str.strip() *)
RECURSIVE strip(_)
strip(str) ==
    IF str = <<>> THEN str
    ELSE IF str[1] \in Whitespace THEN strip(Tail(str))
    ELSE IF str[Len(str)] \in Whitespace THEN strip(SubSeq(str, 1, Len(str) - 1))
    ELSE str

(* int(round(confidence * 100)) for the confidence c/1000: Python's round    *)
(* goes to the nearest integer and to the even one from a half.              *)
round_x100(c) ==
    LET q == c \div 10
        r == c % 10
    IN  IF r < 5 THEN q
        ELSE IF r > 5 THEN q + 1
        ELSE IF q % 2 = 0 THEN q ELSE q + 1

(* f"{n}%" *)
Percent(n) == ToString(n) \o "%"

(* dict.get(key, default) on EMOTION_CONTEXTS *)
ContextsGet(key, default) ==
    IF key \in EmotionKeys THEN EMOTION_CONTEXTS[key] ELSE default

(* build_emotion_instruction(emotion, confidence): the parts the returned    *)
(* f-string interpolates.                                                    *)
build_emotion_instruction(emotion, confidence) ==
    IF emotion = None \/ Get(emotion) = <<>>
    THEN [text |-> "No reliable emotion detected"]
    ELSE LET emo_key == lower(strip(Get(emotion)))
             info == ContextsGet(emo_key, EMOTION_CONTEXTS[s_neutral])
             ctx == info.context
             sugg == info.suggestions
             conf_pct == IF confidence # 0 /\ 0 <= confidence /\ confidence <= 1000
                         THEN Percent(round_x100(confidence))
                         ELSE "n/a"
         IN  [text |-> "Current user emotion",
              emo_key |-> emo_key,
              conf_pct |-> conf_pct,
              ctx |-> ctx,
              tips |-> SliceTo(sugg, 3)]

(* build_topic_instruction(topic_label, confidence); (confidence or 0.0) is  *)
(* the confidence itself for a float.                                        *)
build_topic_instruction(topic_label, confidence) ==
    IF topic_label = None \/ Get(topic_label) = ""
    THEN [text |-> "No topic detected"]
    ELSE [text |-> "Detected user topic intent",
          topic_label |-> Get(topic_label),
          conf_pct |-> Percent(round_x100(confidence))]

(* Sample arguments of the two compilers. *)
EmotionInputs ==
    {None} \cup { Some(e) : e \in EmotionKeys \cup
        {s_empty, s_blank, s_tired, s_HAPPY, s_SAD, s_Sad, s_Happy_padded, s_Unknown} }

ConfInputs == {-50, 0, 4, 5, 15, 820, 825, 835, 995, 1000, 1001, 1500}

TopicInputs == {None, Some(""), Some("algebra"), Some("biology")}

CompilerInputs ==
    { [fn |-> "emotion", emotion |-> e, confidence |-> c] : e \in EmotionInputs, c \in ConfInputs }
    \cup { [fn |-> "topic", topic_label |-> t, confidence |-> c] : t \in TopicInputs, c \in ConfInputs }

BuildEmotionInstruction ==
    /\ input # None /\ Get(input).fn = "emotion"
    /\ ret' = [op |-> "build_emotion_instruction",
               result |-> build_emotion_instruction(Get(input).emotion, Get(input).confidence)]
    /\ UNCHANGED <<recVars, input, apiVars>>

BuildTopicInstruction ==
    /\ input # None /\ Get(input).fn = "topic"
    /\ ret' = [op |-> "build_topic_instruction",
               result |-> build_topic_instruction(Get(input).topic_label, Get(input).confidence)]
    /\ UNCHANGED <<recVars, input, apiVars>>

InitCompiler ==
    /\ names = NamesDict
    /\ RecognizerInit(BackendSmoothingWindow)
    /\ input \in { Some(a) : a \in CompilerInputs }
    /\ ret = [op |-> "init"]
    /\ ApiIdle

NextCompiler ==
    \/ BuildEmotionInstruction
    \/ BuildTopicInstruction

SpecCompiler == InitCompiler /\ [][NextCompiler]_vars

----------------------------------------------------------------------------
(* backend_api: the request handlers *)

MaxHistory == 2      \* entries of the history of a chat request

(* startup_event builds the recognizer with confidence_threshold=0.3. *)
BackendRecognizer == [confidence_threshold |-> 300]

(* The classifiers startup_event may load: what from_dir fixes is the class  *)
(* vocabulary and the kind of model; the answer for a text comes with the    *)
(* request.                                                                  *)
BackendClassifiers ==
    { [class_names |-> SubSeq(AllClassNames, 1, 2), kind |-> "predict_proba"],
      [class_names |-> <<>>, kind |-> "predict_proba"] }

(* The answers of the loaded model for the texts of the requests. *)
BackendOuts == { <<600, 300>>, <<300, 600>>, <<300, 300>> }

WithOut(clf, out) == [class_names |-> clf.class_names, kind |-> clf.kind, out |-> out]

(* Uploaded images: one that fails to decode, one on which inference raises, *)
(* and images with at most one detection.                                    *)
BackendImages ==
    { [raises |-> TRUE, boxes |-> None] }
    \cup { [raises |-> FALSE, boxes |-> b] :
              b \in { x \in BoxesInputs : x = None \/ Len(Get(x)) <= 1 } }

(* GET /health *)
health_check ==
    /\ ret' = [op |-> "health_check",
               status_code |-> 200,
               emotion_model_loaded |-> recognizer # None,
               topic_model_loaded |-> topic_clf # None,
               current_emotion |-> current_emotion,
               emotion_confidence |-> emotion_confidence,
               current_topic |-> current_topic,
               topic_confidence |-> topic_confidence]
    /\ UNCHANGED <<recVars, input, apiVars>>

(* A slip that counts a detection at the threshold itself. *)
Detections_at_least(confidence, threshold) ==
    IF confidence >= threshold THEN 1 ELSE 0

(* detections = 1 if confidence > threshold else 0 *)
Detections(confidence, threshold) ==
    IF confidence > threshold THEN 1 ELSE 0

(* A slip that clears the emotion slot before the image is processed, so a   *)
(* failing request leaves it empty.                                          *)
recognize_emotion_clears_first ==
    /\ \E img \in BackendImages :
         IF recognizer = None
         THEN /\ ret' = [op |-> "recognize_emotion", status_code |-> 503]
              /\ UNCHANGED emotionSlot
         ELSE IF img.raises
         THEN /\ ret' = [op |-> "recognize_emotion", status_code |-> 500]
              /\ current_emotion' = None
              /\ emotion_confidence' = 0
         ELSE LET r == predict_with_confidence(names, img.boxes)
              IN  /\ current_emotion' = Some(r[1])
                  /\ emotion_confidence' = r[2]
                  /\ ret' = [op |-> "recognize_emotion", status_code |-> 200,
                             emotion |-> r[1], confidence |-> r[2],
                             detections |-> Detections(r[2], Get(recognizer).confidence_threshold)]
    /\ UNCHANGED <<recVars, input, threadVars, recognizer, topic_clf, api_key, _openai_client, topicSlot>>

(* POST /recognize_emotion *)
recognize_emotion ==
    /\ \E img \in BackendImages :
         IF recognizer = None
         THEN /\ ret' = [op |-> "recognize_emotion", status_code |-> 503]
              /\ UNCHANGED emotionSlot
         ELSE IF img.raises
         THEN /\ ret' = [op |-> "recognize_emotion", status_code |-> 500]
              /\ UNCHANGED emotionSlot
         ELSE LET r == predict_with_confidence(names, img.boxes)
                  emotion == r[1]
                  confidence == r[2]
                  detections == Detections(confidence, Get(recognizer).confidence_threshold)
              IN  /\ current_emotion' = Some(emotion)
                  /\ emotion_confidence' = confidence
                  /\ ret' = [op |-> "recognize_emotion", status_code |-> 200,
                             emotion |-> emotion, confidence |-> confidence,
                             detections |-> detections]
    /\ UNCHANGED <<recVars, input, threadVars, recognizer, topic_clf, api_key, _openai_client, topicSlot>>

(* GET /current_emotion *)
get_current_emotion ==
    /\ ret' = [op |-> "get_current_emotion", status_code |-> 200,
               emotion |-> current_emotion, confidence |-> emotion_confidence]
    /\ UNCHANGED <<recVars, input, apiVars>>

(* A slip that clears the label and keeps the confidence. *)
reset_emotion_label_only ==
    /\ current_emotion' = None
    /\ ret' = [op |-> "reset_emotion", status_code |-> 200]
    /\ UNCHANGED <<recVars, input, threadVars, recognizer, topic_clf, api_key,
                   _openai_client, emotion_confidence, topicSlot>>

(* POST /reset_emotion *)
reset_emotion ==
    /\ current_emotion' = None
    /\ emotion_confidence' = 0
    /\ ret' = [op |-> "reset_emotion", status_code |-> 200]
    /\ UNCHANGED <<recVars, input, threadVars, recognizer, topic_clf, api_key, _openai_client, topicSlot>>

(* GET /emotion_context *)
get_emotion_context ==
    /\ ret' = IF current_emotion = None \/ Get(current_emotion) = <<>>
              THEN [op |-> "get_emotion_context", status_code |-> 200,
                    has_emotion |-> FALSE,
                    context |-> "No emotion detected. User appears neutral.",
                    suggestions |-> <<>>]
              ELSE LET context_info == ContextsGet(lower(Get(current_emotion)),
                                                   EMOTION_CONTEXTS[s_neutral])
                   IN  [op |-> "get_emotion_context", status_code |-> 200,
                        has_emotion |-> TRUE,
                        emotion |-> current_emotion,
                        confidence |-> emotion_confidence,
                        context |-> context_info.context,
                        suggestions |-> context_info.suggestions]
    /\ UNCHANGED <<recVars, input, apiVars>>

(* A label pydantic accepts as a float: the response model declares          *)
(* top: List[Dict[str, float]], so every value of an entry of top, the label *)
(* included, is validated as a float.                                        *)
IsFloatString(label) == label \in {"0", "1", "2", "3", "4", "5", "6", "7", "8", "9"}

(* A slip that treats the missing classifier like the missing recognizer. *)
TopicUnavailable_503(k) ==
    [op |-> "classify_topic", status_code |-> 503, top_k |-> k]

(* classify_topic without a classifier: the soft response. *)
TopicUnavailable(k) ==
    [op |-> "classify_topic", status_code |-> 200, top_k |-> k,
     label |-> None, confidence |-> 0, top |-> <<>>, model_loaded |-> FALSE]

(* POST /api/classify_topic. `answer` is None when the classifier raises on  *)
(* the text, else the answer of the model; `order` is the result of the      *)
(* argsort inside top_k.                                                     *)
classify_topic ==
    /\ \E k \in {-1, 0, 1, 3}, answer \in {None} \cup { Some(o) : o \in BackendOuts } :
         IF topic_clf = None
         THEN /\ ret' = TopicUnavailable(k)
              /\ UNCHANGED topicSlot
         ELSE IF answer = None
         THEN /\ ret' = [op |-> "classify_topic", status_code |-> 500, top_k |-> k]
              /\ UNCHANGED topicSlot
         ELSE LET clf == WithOut(Get(topic_clf), Get(answer))
                  p == topic_predict(clf)
                  label == p[1]
                  conf == p[2]
              IN  \E order \in argsort_neg(_proba(clf)) :
                    LET top == top_k(clf, Max2(1, k), order)
                    IN  /\ current_topic' = Some(label)
                        /\ topic_confidence' = conf
                        /\ ret' = IF \A i \in 1..Len(top) : IsFloatString(top[i].label)
                                  THEN [op |-> "classify_topic", status_code |-> 200,
                                        top_k |-> k, label |-> Some(label),
                                        confidence |-> conf, top |-> top,
                                        model_loaded |-> TRUE]
                                  ELSE [op |-> "classify_topic", status_code |-> 500,
                                        top_k |-> k]
    /\ UNCHANGED <<recVars, input, threadVars, recognizer, topic_clf, api_key, _openai_client, emotionSlot>>

(* The values of OPENAI_API_KEY: unset, set to the empty string, set. *)
EnvKeys == {None, Some(""), Some("sk-test")}

(* A slip that reads the key only when no client has been created yet. *)
KeyMissing_unless_cached ==
    _openai_client = None /\ (api_key = None \/ Get(api_key) = "")

(* get_openai_client(): raises when the key is missing or empty. *)
KeyMissing == api_key = None \/ Get(api_key) = ""

system_persona == "You are a helpful STEM tutor called STEMMY."

(* History entries as the request carries them: a dict that may lack "role"  *)
(* or "content".                                                             *)
HistoryPool ==
    << [role |-> Some("system"), content |-> Some("Be brief.")],
       [role |-> Some("tool"), content |-> Some("lookup")],
       [role |-> None, content |-> None],
       [role |-> Some("assistant"), content |-> Some("A mole is a unit.")] >>

(* The histories of the requests: none, and the first MaxHistory entries. *)
Histories == { <<>>, SubSeq(HistoryPool, 1, MaxHistory) }

(* Override profiles of a request: (emotion_override,                        *)
(* emotion_confidence_override, topic_override, topic_confidence_override).  *)
Overrides ==
    { <<None, None, None, None>>,
      <<Some(s_SAD), Some(1500), None, None>>,
      <<None, Some(825), Some("geometry"), None>>,
      <<Some(s_empty), None, Some("geometry"), Some(1500)>> }

ChatRequests ==
    { [message |-> "What is a mole?",
       history |-> h,
       use_emotion |-> ue,
       emotion_override |-> o[1],
       emotion_confidence_override |-> o[2],
       use_topic |-> ut,
       topic_override |-> o[3],
       topic_confidence_override |-> o[4]] :
      h \in Histories, ue \in BOOLEAN, ut \in BOOLEAN, o \in Overrides }

(* The loop over payload.history: defaults for missing keys, unknown roles   *)
(* become "user".                                                            *)
HistoryMessage(m) ==
    LET role0 == IF m.role # None THEN Get(m.role) ELSE "user"
        content == IF m.content # None THEN Get(m.content) ELSE ""
        role == IF role0 \notin {"user", "assistant", "system"} THEN "user" ELSE role0
    IN  [role |-> role, content |-> [text |-> content]]

(* The system message of the emotion signal. *)
EmotionMessage(req, emo_now, conf_now) ==
    LET emo == IF req.emotion_override # None THEN req.emotion_override ELSE emo_now
        conf == IF req.emotion_confidence_override # None
                THEN Get(req.emotion_confidence_override)
                ELSE conf_now
    IN  [role |-> "system",
         content |-> [text |-> "Adapt your tone and teaching strategy based on the following emotion signal. ",
                      instruction |-> build_emotion_instruction(emo, conf)]]

(* The system message of the topic signal. *)
TopicMessage(topic_lbl, topic_conf) ==
    [role |-> "system", content |-> build_topic_instruction(topic_lbl, topic_conf)]

(* A slip that injects the topic message whatever use_topic says. *)
SysMessages_topic_always(req, emotion_msg, topic_msg) ==
    << [role |-> "system", content |-> [text |-> system_persona]] >>
    \o (IF req.use_emotion THEN <<emotion_msg>> ELSE <<>>)
    \o <<topic_msg>>

(* sys_messages: the persona, then the emotion message if use_emotion, then  *)
(* the topic message if use_topic.                                           *)
SysMessages(req, emotion_msg, topic_msg) ==
    << [role |-> "system", content |-> [text |-> system_persona]] >>
    \o (IF req.use_emotion THEN <<emotion_msg>> ELSE <<>>)
    \o (IF req.use_topic THEN <<topic_msg>> ELSE <<>>)

(* A slip that appends the user message before the history. *)
BuildMessages_user_first(sys_messages, req) ==
    sys_messages
    \o << [role |-> "user", content |-> [text |-> req.message]] >>
    \o [i \in 1..Len(req.history) |-> HistoryMessage(req.history[i])]

(* sys_messages, then the history, then the user message. *)
BuildMessages(sys_messages, req) ==
    sys_messages
    \o [i \in 1..Len(req.history) |-> HistoryMessage(req.history[i])]
    \o << [role |-> "user", content |-> [text |-> req.message]] >>

(* POST /api/chat_openai. `answer` is what the classifier does on the        *)
(* message when it is run (None: it raises); `upstream_ok` is the outcome of *)
(* the remote call.                                                          *)
chat_openai_endpoint ==
    /\ IF KeyMissing
       THEN /\ ret' = [op |-> "chat_openai_endpoint", status_code |-> 500,
                       detail |-> "OPENAI_API_KEY is not set",
                       sent |-> FALSE, classified |-> FALSE]
            /\ UNCHANGED <<_openai_client, topicSlot>>
       ELSE \E req \in ChatRequests, upstream_ok \in BOOLEAN :
            LET runs == /\ req.use_topic
                        /\ req.topic_override = None
                        /\ topic_clf # None
            IN  \E answer \in IF runs THEN {None} \cup { Some(o) : o \in BackendOuts }
                               ELSE {None} :
                LET predicted == runs /\ answer # None
                    p == topic_predict(WithOut(Get(topic_clf), Get(answer)))
                    topic_lbl == IF req.topic_override # None THEN req.topic_override
                                 ELSE IF predicted THEN Some(p[1])
                                 ELSE current_topic
                    topic_conf == IF req.topic_override # None
                                  THEN (IF req.topic_confidence_override # None
                                        THEN Get(req.topic_confidence_override) ELSE 0)
                                  ELSE IF predicted THEN p[2]
                                  ELSE topic_confidence
                    sys_messages ==
                        SysMessages(req,
                                    EmotionMessage(req, current_emotion, emotion_confidence),
                                    TopicMessage(topic_lbl, topic_conf))
                    messages == BuildMessages(sys_messages, req)
                IN  /\ _openai_client' = IF _openai_client = None
                                         THEN Some("OpenAI") ELSE _openai_client
                    /\ current_topic' = IF predicted THEN Some(p[1]) ELSE current_topic
                    /\ topic_confidence' = IF predicted THEN p[2] ELSE topic_confidence
                    /\ ret' = [op |-> "chat_openai_endpoint",
                               status_code |-> IF upstream_ok THEN 200 ELSE 500,
                               detail |-> IF upstream_ok THEN "reply" ELSE "OpenAI error",
                               sent |-> TRUE, classified |-> runs,
                               messages |-> messages,
                               request |-> req]
    /\ UNCHANGED <<recVars, input, threadVars, recognizer, topic_clf, api_key, emotionSlot>>

(* GET /api/openai_status *)
openai_status ==
    /\ ret' = [op |-> "openai_status", status_code |-> 200,
               has_key |-> ~KeyMissing,
               base_url |-> "https://api.openai.com/v1",
               project_set |-> FALSE]
    /\ UNCHANGED <<recVars, input, apiVars>>

(* The environment of the process: OPENAI_API_KEY is read on every request   *)
(* and may have changed since the last one.                                  *)
SetEnvironment ==
    /\ \E key \in EnvKeys : api_key' = key
    /\ ret' = [op |-> "environ"]
    /\ UNCHANGED <<recVars, input, threadVars, recognizer, topic_clf, _openai_client, emotionSlot, topicSlot>>

(* startup_event: each model loads or fails to load. *)
Init ==
    /\ names = NamesDict
    /\ RecognizerInit(BackendSmoothingWindow)
    /\ input = None
    /\ ret = [op |-> "init"]
    /\ recognizer \in {None, Some(BackendRecognizer)}
    /\ topic_clf \in {None} \cup { Some(c) : c \in BackendClassifiers }
    /\ current_emotion = None
    /\ emotion_confidence = 0
    /\ current_topic = None
    /\ topic_confidence = 0
    /\ api_key \in EnvKeys
    /\ _openai_client = None
    /\ ThreadsIdle

Next ==
    \/ health_check
    \/ recognize_emotion
    \/ get_current_emotion
    \/ reset_emotion
    \/ get_emotion_context
    \/ classify_topic
    \/ chat_openai_endpoint
    \/ openai_status
    \/ SetEnvironment

Spec == Init /\ [][Next]_vars

----------------------------------------------------------------------------
(* backend_api: the synchronous handlers on threadpool workers               *)
(*                                                                           *)
(* classify_topic and chat_openai_endpoint are plain `def` handlers: each    *)
(* request runs on a worker thread, and threads are switched between         *)
(* bytecodes. A handler is one step up to and including its store to         *)
(* current_topic and a second step from its store to topic_confidence on;    *)
(* everything else it does is on locals. health_check runs on the event      *)
(* loop at any time in between.                                              *)

(* The answers of the loaded model for the texts of concurrent requests. *)
WorkerOuts == { <<300, 600>>, <<300, 300>> }

(* The chat requests of concurrent clients: no history, no overrides. *)
WorkerChatRequests ==
    { r \in ChatRequests :
        /\ r.history = <<>>
        /\ r.emotion_override = None /\ r.emotion_confidence_override = None
        /\ r.topic_override = None /\ r.topic_confidence_override = None }

(* The response of chat_openai_endpoint once the messages are built. *)
ChatReply(req, upstream_ok, runs, emotion_msg, topic_lbl, topic_conf) ==
    [op |-> "chat_openai_endpoint",
     status_code |-> IF upstream_ok THEN 200 ELSE 500,
     detail |-> IF upstream_ok THEN "reply" ELSE "OpenAI error",
     sent |-> TRUE, classified |-> runs,
     messages |-> BuildMessages(SysMessages(req, emotion_msg,
                                            TopicMessage(topic_lbl, topic_conf)), req),
     request |-> req]

(* classify_topic on worker t, through `current_topic = label`. *)
classify_topic_store_label(t) ==
    /\ workers[t].pc = "idle"
    /\ \E k \in {1, 3}, answer \in {None} \cup { Some(o) : o \in WorkerOuts } :
         IF topic_clf = None
         THEN /\ ret' = TopicUnavailable(k)
              /\ UNCHANGED <<topicSlot, threadVars>>
         ELSE IF answer = None
         THEN /\ ret' = [op |-> "classify_topic", status_code |-> 500, top_k |-> k]
              /\ UNCHANGED <<topicSlot, threadVars>>
         ELSE LET clf == WithOut(Get(topic_clf), Get(answer))
                  p == topic_predict(clf)
              IN  /\ current_topic' = Some(p[1])
                  /\ workers' = [workers EXCEPT ![t] =
                                    [pc |-> "classify_topic_300", k |-> k,
                                     clf |-> clf, label |-> p[1], conf |-> p[2]]]
                  /\ written' = written \cup { <<Some(p[1]), p[2]>> }
                  /\ UNCHANGED <<topic_confidence, ret>>
    /\ UNCHANGED <<recVars, input, recognizer, topic_clf, api_key, _openai_client, emotionSlot>>

(* classify_topic on worker t, from `topic_confidence = conf` to the         *)
(* response.                                                                 *)
classify_topic_store_confidence(t) ==
    /\ workers[t].pc = "classify_topic_300"
    /\ LET w == workers[t]
       IN  \E order \in argsort_neg(_proba(w.clf)) :
             LET top == top_k(w.clf, Max2(1, w.k), order)
             IN  /\ topic_confidence' = w.conf
                 /\ ret' = IF \A i \in 1..Len(top) : IsFloatString(top[i].label)
                           THEN [op |-> "classify_topic", status_code |-> 200,
                                 top_k |-> w.k, label |-> Some(w.label),
                                 confidence |-> w.conf, top |-> top,
                                 model_loaded |-> TRUE]
                           ELSE [op |-> "classify_topic", status_code |-> 500,
                                 top_k |-> w.k]
    /\ workers' = [workers EXCEPT ![t] = [pc |-> "idle"]]
    /\ UNCHANGED <<recVars, input, recognizer, topic_clf, api_key, _openai_client,
                   emotionSlot, current_topic, written>>

(* chat_openai_endpoint on worker t, through the store to current_topic of   *)
(* `current_topic, topic_confidence = topic_lbl, topic_conf`; a request that *)
(* does not get there is served in this step.                                *)
chat_store_label(t) ==
    /\ workers[t].pc = "idle"
    /\ IF KeyMissing
       THEN /\ ret' = [op |-> "chat_openai_endpoint", status_code |-> 500,
                       detail |-> "OPENAI_API_KEY is not set",
                       sent |-> FALSE, classified |-> FALSE]
            /\ UNCHANGED <<_openai_client, topicSlot, threadVars>>
       ELSE \E req \in WorkerChatRequests :
            LET runs == req.use_topic /\ topic_clf # None
                emotion_msg == EmotionMessage(req, current_emotion, emotion_confidence)
            IN  \E answer \in IF runs THEN {None} \cup { Some(o) : o \in WorkerOuts }
                               ELSE {None} :
                /\ _openai_client' = IF _openai_client = None
                                     THEN Some("OpenAI") ELSE _openai_client
                /\ IF runs /\ answer # None
                   THEN LET p == topic_predict(WithOut(Get(topic_clf), Get(answer)))
                        IN  /\ current_topic' = Some(p[1])
                            /\ workers' = [workers EXCEPT ![t] =
                                              [pc |-> "chat_openai_endpoint_345",
                                               req |-> req, emotion_msg |-> emotion_msg,
                                               topic_lbl |-> p[1], topic_conf |-> p[2]]]
                            /\ written' = written \cup { <<Some(p[1]), p[2]>> }
                            /\ UNCHANGED <<topic_confidence, ret>>
                   ELSE \E upstream_ok \in BOOLEAN :
                            /\ ret' = ChatReply(req, upstream_ok, runs, emotion_msg,
                                                current_topic, topic_confidence)
                            /\ UNCHANGED <<topicSlot, threadVars>>
    /\ UNCHANGED <<recVars, input, recognizer, topic_clf, api_key, emotionSlot>>

(* chat_openai_endpoint on worker t, from the store to topic_confidence to   *)
(* the response.                                                             *)
chat_store_confidence(t) ==
    /\ workers[t].pc = "chat_openai_endpoint_345"
    /\ LET w == workers[t]
       IN  \E upstream_ok \in BOOLEAN :
             /\ topic_confidence' = w.topic_conf
             /\ ret' = ChatReply(w.req, upstream_ok, TRUE, w.emotion_msg,
                                 Some(w.topic_lbl), w.topic_conf)
    /\ workers' = [workers EXCEPT ![t] = [pc |-> "idle"]]
    /\ UNCHANGED <<recVars, input, recognizer, topic_clf, api_key, _openai_client,
                   emotionSlot, current_topic, written>>

NextWorkers ==
    \/ \E t \in Threads : classify_topic_store_label(t)
    \/ \E t \in Threads : classify_topic_store_confidence(t)
    \/ \E t \in Threads : chat_store_label(t)
    \/ \E t \in Threads : chat_store_confidence(t)
    \/ health_check

SpecWorkers == Init /\ [][NextWorkers]_vars

----------------------------------------------------------------------------
(* Claims about the recognizer *)

(* The label the id -> label table gives a class id, "neutral" without one. *)
TableLabel(nm, cls) ==
    IF cls \in 0..(Len(nm.table) - 1) THEN nm.table[cls + 1] ELSE s_neutral

(* C1: predict_with_confidence returns ("neutral", 0.0) for an empty list or *)
(* boxes None; otherwise the label and confidence of a detection whose       *)
(* confidence is maximal and strictly above that of every earlier detection  *)
(* (the first of the maximal ones in input order).                           *)
C1_ReducerSelectsFirstMax ==
    ret.op = "predict_with_confidence" =>
        LET boxes == Get(input)
        IN  IF boxes = None \/ Len(Get(boxes)) = 0
            THEN ret.result = <<s_neutral, 0>>
            ELSE LET b == Get(boxes)
                 IN  \E i \in 1..Len(b) :
                        /\ \A j \in 1..Len(b) : b[j].conf <= b[i].conf
                        /\ \A j \in 1..(i - 1) : b[j].conf < b[i].conf
                        /\ ret.result = <<TableLabel(names, b[i].cls), b[i].conf>>

(* Two detections of different classes tie for the maximum and the first won. *)
C1_Witness ==
    /\ ret.op = "predict_with_confidence"
    /\ Get(input) # None
    /\ LET b == Get(Get(input))
       IN  /\ Len(b) = 2
           /\ b[1].conf = b[2].conf
           /\ b[1].cls = 1 /\ b[2].cls = 0
           /\ ret.result = <<s_Sad, b[1].conf>>

CountOf(h, l) == Cardinality({ i \in 1..Len(h) : h[i] = l })

FirstIndexOf(h, l) == CHOOSE i \in 1..Len(h) : h[i] = l /\ \A j \in 1..(i - 1) : h[j] # l

LabelsOf(h) == { h[i] : i \in 1..Len(h) }

(* C2: the smoothed label computed after an append has the highest count in  *)
(* the current buffer, and among the labels of that count it is the one that *)
(* occurs first in the buffer; the buffers [happy, Sad, happy] and           *)
(* [happy, Sad] both give happy.                                             *)
C2_SmoothedLabelIsFirstMajority ==
    /\ smoothed_label_of(<<s_happy, s_Sad, s_happy>>) = s_happy
    /\ smoothed_label_of(<<s_happy, s_Sad>>) = s_happy
    /\ ((ret.op = "run_webcam" /\ ret.event = "label") =>
        LET h == _label_history
            s == ret.smoothed_label
        IN  /\ s \in LabelsOf(h)
            /\ \A l \in LabelsOf(h) : CountOf(h, l) <= CountOf(h, s)
            /\ \A l \in LabelsOf(h) \ {s} :
                   CountOf(h, l) = CountOf(h, s) => FirstIndexOf(h, s) < FirstIndexOf(h, l))

(* After an eviction the buffer holds a tie; the smoothed label is the       *)
(* earlier of the tied labels although it is neither the newest label nor    *)
(* the most frequent label of the whole run.                                 *)
C2_Witness ==
    /\ ret.op = "run_webcam" /\ ret.event = "label"
    /\ Len(observed) > Len(_label_history)
    /\ Len(_label_history) = 2
    /\ _label_history[1] # _label_history[2]
    /\ ret.smoothed_label = _label_history[1]
    /\ CountOf(observed, _label_history[2]) > CountOf(observed, _label_history[1])

LastN(q, n) == SubSeq(q, Len(q) - n + 1, Len(q))

(* C3: the label history is the last min(n, N) of the n labels appended so   *)
(* far, in insertion order, with N = max(1, smoothing_window argument); its  *)
(* length is at most N and at least 1 once a label was appended.             *)
C3_HistoryIsFifoWindow ==
    LET N == IF window_arg >= 1 THEN window_arg ELSE 1
        n == Len(observed)
    IN  /\ _label_history = LastN(observed, IF n <= N THEN n ELSE N)
        /\ Len(_label_history) <= N
        /\ n >= 1 => Len(_label_history) >= 1

(* More labels were appended than the window holds, and the window keeps a   *)
(* duplicate.                                                                *)
C3_Witness ==
    /\ Len(observed) > smoothing_window
    /\ Len(_label_history) >= 2
    /\ _label_history[1] = _label_history[2]
    /\ observed[1] # _label_history[1]

----------------------------------------------------------------------------
(* Claims about the topic ranker *)

(* The class index a returned label stands for. *)
IndexOfLabel(clf, label) ==
    CHOOSE i \in 0..(Len(_proba(clf)) - 1) : ClassLabel(clf, i) = label

(* C4 as stated: the pairs top_k returns are in descending order of          *)
(* probability, and of two returned classes of equal probability the one     *)
(* with the lower class index comes first.                                   *)
C4_TopKSortedTiesByIndex ==
    ret.op = "top_k" =>
        LET clf == Get(input)
            r == ret.result
        IN  \A i, j \in 1..Len(r) :
                i < j =>
                    /\ r[i].prob >= r[j].prob
                    /\ r[i].prob = r[j].prob =>
                           IndexOfLabel(clf, r[i].label) < IndexOfLabel(clf, r[j].label)

(* C4, the part the code guarantees: the pairs are distinct classes with     *)
(* their own probabilities, in descending order of probability, and no       *)
(* class left out has a higher probability than a returned one.              *)
C4_TopKSortedDescending ==
    ret.op = "top_k" =>
        LET clf == Get(input)
            proba == _proba(clf)
            r == ret.result
            chosen == { IndexOfLabel(clf, r[i].label) : i \in 1..Len(r) }
        IN  /\ \A i \in 1..Len(r) : r[i].prob = proba[IndexOfLabel(clf, r[i].label) + 1]
            /\ Cardinality(chosen) = Len(r)
            /\ \A i, j \in 1..Len(r) : i < j => r[i].prob >= r[j].prob
            /\ \A c \in (0..(Len(proba) - 1)) \ chosen :
                   \A i \in 1..Len(r) : proba[c + 1] <= r[i].prob

(* The example of the claim: [0.1, 0.6, 0.3] with k = 2 gave class 1, then   *)
(* class 2.                                                                  *)
C4_Example ==
    /\ ret.op = "top_k" /\ ret.k = 2
    /\ Get(input).kind = "predict_proba"
    /\ Get(input).out = <<100, 600, 300>>
    /\ Get(input).class_names # <<>>
    /\ ret.result = <<[label |-> "biology", prob |-> 600], [label |-> "chemistry", prob |-> 300]>>

(* C5 as stated: for every integer k, top_k returns exactly                  *)
(* min(max(k, 1), C) entries, C the number of classes.                       *)
C5_TopKClampsK ==
    ret.op = "top_k" =>
        LET C == Len(_proba(Get(input)))
            k1 == IF ret.k >= 1 THEN ret.k ELSE 1
        IN  Len(ret.result) = (IF k1 <= C THEN k1 ELSE C)

----------------------------------------------------------------------------
(* Claims about the prompt compiler *)

(* The label is present: not None and not the empty string. *)
LabelPresent(e) == e # None /\ Get(e) # <<>>

(* C7 as stated: with a present label, every confidence in [0, 1] is         *)
(* rendered as the integer percentage nearest to it (0.0 as "0%", 1.0 as     *)
(* "100%"), and every confidence outside [0, 1] as "n/a".                    *)
C7_ConfidenceRendering ==
    (ret.op = "build_emotion_instruction" /\ LabelPresent(Get(input).emotion)) =>
        LET c == Get(input).confidence
            shown == ret.result.conf_pct
        IN  IF 0 <= c /\ c <= 1000
            THEN \E n \in 0..100 :
                    /\ 10 * n - c <= 5 /\ c - 10 * n <= 5
                    /\ shown = Percent(n)
            ELSE shown = "n/a"

(* The chars of two strings agree up to the case of letters. *)
SameIgnoringCase(a, b) ==
    /\ Len(a) = Len(b)
    /\ \A i \in 1..Len(a) :
          \/ a[i] = b[i]
          \/ \E n \in 1..26 : {a[i], b[i]} = {UpperLetters[n], LowerLetters[n]}

(* The table key the label names: equal to it up to the case of letters and  *)
(* surrounding blanks.                                                       *)
KeysNamedBy(label) ==
    { key \in EmotionKeys :
        \E i \in 1..(Len(label) + 1), j \in 0..Len(label) :
            /\ SameIgnoringCase(SubSeq(label, i, j), key)
            /\ \A n \in (1..(i - 1)) \cup ((j + 1)..Len(label)) : label[n] \in Whitespace }

(* C8: with a present label the instruction carries the description of the  *)
(* table entry the label names without regard to case, of the "neutral"      *)
(* entry when it names none, and exactly the first min(3, n) suggestions of  *)
(* that entry in configured order.                                           *)
C8_ContextLookup ==
    (ret.op = "build_emotion_instruction" /\ LabelPresent(Get(input).emotion)) =>
        LET label == Get(Get(input).emotion)
            named == KeysNamedBy(label)
            entry == IF named = {} THEN EMOTION_CONTEXTS[s_neutral]
                     ELSE EMOTION_CONTEXTS[CHOOSE key \in named : TRUE]
            n == Len(entry.suggestions)
        IN  /\ Cardinality(named) <= 1
            /\ ret.result.text = "Current user emotion"
            /\ ret.result.ctx = entry.context
            /\ Len(ret.result.tips) = (IF n <= 3 THEN n ELSE 3)
            /\ Len(ret.result.tips) <= 3
            /\ \A i \in 1..Len(ret.result.tips) : ret.result.tips[i] = entry.suggestions[i]

(* The label "SAD" got the description and the three suggestions of "sad". *)
C8_Witness ==
    /\ ret.op = "build_emotion_instruction"
    /\ Get(input).emotion = Some(s_SAD)
    /\ ret.result.ctx = EMOTION_CONTEXTS[s_sad].context
    /\ ret.result.tips = EMOTION_CONTEXTS[s_sad].suggestions
    /\ ret.result.ctx # EMOTION_CONTEXTS[s_neutral].context

----------------------------------------------------------------------------
(* Claims about the request handlers *)

(* C6: a classify_topic request served without a classifier does not fail:  *)
(* it answers label null, confidence 0.0, an empty top list and              *)
(* model_loaded false, and leaves (current_topic, topic_confidence) as they  *)
(* were.                                                                     *)
C6_UnavailableClassifierIsSoft ==
    [][ (topic_clf = None /\ ret'.op = "classify_topic") =>
            /\ ret'.status_code = 200
            /\ ret' = [op |-> "classify_topic", status_code |-> 200,
                       top_k |-> ret'.top_k, label |-> None, confidence |-> 0,
                       top |-> <<>>, model_loaded |-> FALSE]
            /\ current_topic' = current_topic
            /\ topic_confidence' = topic_confidence ]_vars

(* A request with top_k = 0 was answered without a classifier. *)
C6_Witness ==
    /\ topic_clf = None
    /\ ret.op = "classify_topic"
    /\ ret.top_k = 0
    /\ ret.status_code = 200
    /\ ret.model_loaded = FALSE

EmotionMessageText == "Adapt your tone and teaching strategy based on the following emotion signal. "

TopicMessageTexts == {"No topic detected", "Detected user topic intent"}

(* The message sent for the history entry m: its content, "" without one. *)
SentContentOf(m) == IF m.content = None THEN "" ELSE Get(m.content)

(* C9: the list sent to the remote API is the persona system message, the    *)
(* emotion instruction if use_emotion, the topic instruction if use_topic,   *)
(* the history entries in their given order, and the user message last; the  *)
(* emotion instruction comes before the topic instruction.                   *)
C9_MessageOrder ==
    (ret.op = "chat_openai_endpoint" /\ ret.sent) =>
        LET m == ret.messages
            req == ret.request
            ne == IF req.use_emotion THEN 1 ELSE 0
            nt == IF req.use_topic THEN 1 ELSE 0
            nh == Len(req.history)
        IN  /\ Len(m) = 1 + ne + nt + nh + 1
            /\ m[1].role = "system" /\ m[1].content.text = system_persona
            /\ req.use_emotion =>
                   m[2].role = "system" /\ m[2].content.text = EmotionMessageText
            /\ req.use_topic =>
                   m[2 + ne].role = "system" /\ m[2 + ne].content.text \in TopicMessageTexts
            /\ \A i \in 1..nh :
                   m[1 + ne + nt + i].content.text = SentContentOf(req.history[i])
            /\ m[Len(m)] = [role |-> "user", content |-> [text |-> req.message]]
            /\ \A i, j \in 1..Len(m) :
                   (m[i].content.text = EmotionMessageText
                        /\ m[j].content.text \in TopicMessageTexts) => i < j

(* Both instructions were requested with a history of two entries: the       *)
(* emotion instruction is second, the topic instruction third.               *)
C9_Witness ==
    /\ ret.op = "chat_openai_endpoint" /\ ret.sent
    /\ ret.request.use_emotion /\ ret.request.use_topic
    /\ Len(ret.request.history) = 2
    /\ Len(ret.messages) = 6
    /\ ret.messages[2].content.text = EmotionMessageText
    /\ ret.messages[3].content.text = "Detected user topic intent"

(* C10: with use_emotion and use_topic both false the list sent is the       *)
(* persona system message, the history entries and the user message,         *)
(* 1 + len(history) + 1 messages, none of them an emotion or topic           *)
(* instruction.                                                              *)
C10_NoInjectionWithoutFlags ==
    (/\ ret.op = "chat_openai_endpoint" /\ ret.sent
     /\ ~ret.request.use_emotion /\ ~ret.request.use_topic) =>
        LET m == ret.messages
            req == ret.request
        IN  /\ Len(m) = 1 + Len(req.history) + 1
            /\ m[1] = [role |-> "system", content |-> [text |-> system_persona]]
            /\ \A i \in 1..Len(m) :
                   m[i].content.text \notin ({EmotionMessageText} \cup TopicMessageTexts)
            /\ \A i \in 2..Len(m) : m[i].content.text # system_persona
            /\ \A i \in 1..Len(req.history) :
                   m[1 + i].content.text = SentContentOf(req.history[i])
            /\ m[Len(m)].role = "user" /\ m[Len(m)].content.text = req.message

(* Both flags were false while overrides were given and both shared slots    *)
(* were set; four messages went out for a history of two.                    *)
C10_Witness ==
    /\ ret.op = "chat_openai_endpoint" /\ ret.sent
    /\ ~ret.request.use_emotion /\ ~ret.request.use_topic
    /\ ret.request.emotion_override # None
    /\ ret.request.topic_override # None
    /\ current_emotion # None /\ current_topic # None
    /\ Len(ret.request.history) = 2
    /\ Len(ret.messages) = 4

(* C11: a chat_openai_endpoint request served while OPENAI_API_KEY is unset  *)
(* (or empty) fails with the "not configured" error: nothing is sent to the  *)
(* remote API, the topic classifier is not run, and the shared emotion and   *)
(* topic slots are unchanged, a client created earlier notwithstanding.      *)
C11_MissingKeyFailsFirst ==
    [][ (ret'.op = "chat_openai_endpoint" /\ api_key \in {None, Some("")}) =>
            /\ ret'.status_code = 500
            /\ ret'.detail = "OPENAI_API_KEY is not set"
            /\ ret'.sent = FALSE
            /\ ret'.classified = FALSE
            /\ current_emotion' = current_emotion
            /\ emotion_confidence' = emotion_confidence
            /\ current_topic' = current_topic
            /\ topic_confidence' = topic_confidence
            /\ _openai_client' = _openai_client ]_vars

(* A request failed for the missing key although a client of an earlier      *)
(* request is cached and a classifier is loaded.                             *)
C11_Witness ==
    /\ ret.op = "chat_openai_endpoint"
    /\ api_key = None
    /\ _openai_client # None
    /\ topic_clf # None
    /\ ret.detail = "OPENAI_API_KEY is not set"

(* C12: a recognize_emotion request fails with 503 when no recognizer is     *)
(* loaded and with 500 when decoding or inference raises; after either       *)
(* failure (current_emotion, emotion_confidence) is what it was before.      *)
C12_RecognizeErrorsKeepSlot ==
    [][ (ret'.op = "recognize_emotion") =>
            /\ ret'.status_code \in {200, 500, 503}
            /\ (recognizer = None) <=> (ret'.status_code = 503)
            /\ (ret'.status_code \in {500, 503}) =>
                   /\ current_emotion' = current_emotion
                   /\ emotion_confidence' = emotion_confidence ]_vars

(* A request failed with 500 while the slot held a detection of an earlier   *)
(* request, and the slot still holds it.                                     *)
C12_Witness ==
    /\ ret.op = "recognize_emotion"
    /\ ret.status_code = 500
    /\ recognizer # None
    /\ current_emotion = Some(s_happy)
    /\ emotion_confidence = 700

(* C13: a successful recognize_emotion response has detections = 1 exactly   *)
(* when the returned confidence is strictly greater than the recognizer's    *)
(* confidence threshold and detections = 0 otherwise, whatever the label.    *)
C13_DetectionsByThresholdOnly ==
    (ret.op = "recognize_emotion" /\ ret.status_code = 200) =>
        /\ ret.detections \in {0, 1}
        /\ (ret.detections = 1) <=>
               (ret.confidence > Get(recognizer).confidence_threshold)
        /\ (ret.confidence <= Get(recognizer).confidence_threshold) =>
               ret.detections = 0

(* The reducer returned a label other than "neutral" with a confidence at    *)
(* the threshold, and the response reports no detection.                     *)
C13_Witness ==
    /\ ret.op = "recognize_emotion"
    /\ ret.status_code = 200
    /\ ret.emotion = s_happy
    /\ ret.confidence = Get(recognizer).confidence_threshold
    /\ ret.detections = 0

----------------------------------------------------------------------------
(* Further claims about the recognizer *)

(* C14: a class id that is not in the id -> label table is mapped to the     *)
(* label "neutral", by predict_with_confidence and by the loop of            *)
(* run_webcam alike.                                                         *)
C14_UnknownIdIsNeutral ==
    /\ (ret.op = "run_webcam" /\ ret.event = "label"
            /\ ~HasId(names, ret.class_id)) =>
           ret.label = s_neutral
    /\ (ret.op = "predict_with_confidence" /\ Get(input) # None
            /\ Len(Get(Get(input))) > 0
            /\ \A i \in 1..Len(Get(Get(input))) : ~HasId(names, Get(Get(input))[i].cls)) =>
           ret.result[1] = s_neutral

(* C18: every frame the loop of run_webcam processes appends exactly one     *)
(* label to the label history.                                               *)
C18_OneLabelPerFrame ==
    [][ (ret'.op = "run_webcam" /\ ret'.event \in {"label", "no_label"}) =>
            /\ Len(observed') = Len(observed) + 1
            /\ _label_history' = DequeAppend(_label_history,
                                              observed'[Len(observed')],
                                              smoothing_window) ]_vars

----------------------------------------------------------------------------
(* Further claims about the prompt compiler *)

(* C15: a percentage rendered in an instruction of build_emotion_instruction *)
(* or build_topic_instruction is between 0% and 100%, whatever the           *)
(* confidence given.                                                         *)
C15_PercentagesClamped ==
    (/\ ret.op \in {"build_emotion_instruction", "build_topic_instruction"}
     /\ ret.result.text \in {"Current user emotion", "Detected user topic intent"}
     /\ ret.result.conf_pct # "n/a") =>
        ret.result.conf_pct \in { Percent(n) : n \in 0..100 }

----------------------------------------------------------------------------
(* Further claims about the request handlers *)

(* C16: whatever the interleaving of concurrent classify_topic and           *)
(* chat_openai_endpoint requests, the (current_topic, topic_confidence) a    *)
(* health check reports is a pair one single request wrote (or the initial   *)
(* pair), never the label of one request with the confidence of another.     *)
C16_TopicSlotReplacedAtomically ==
    (ret.op = "health_check") =>
        <<ret.current_topic, ret.topic_confidence>> \in written

(* C17: a chat_openai_endpoint request leaves current_emotion,               *)
(* emotion_confidence, current_topic and topic_confidence as they were.      *)
C17_ChatOnlyReadsState ==
    [][ (ret'.op = "chat_openai_endpoint") =>
            /\ current_emotion' = current_emotion
            /\ emotion_confidence' = emotion_confidence
            /\ current_topic' = current_topic
            /\ topic_confidence' = topic_confidence ]_vars

(* C19: in every reachable state, current_emotion None implies               *)
(* emotion_confidence 0.0 and current_topic None implies topic_confidence    *)
(* 0.0; a reset_emotion request leaves the emotion slot at (None, 0.0) and   *)
(* the topic slot as it was.                                                 *)
C19_SentinelInvariant ==
    /\ [](/\ (current_emotion = None => emotion_confidence = 0)
          /\ (current_topic = None => topic_confidence = 0))
    /\ [][ (ret'.op = "reset_emotion") =>
               /\ current_emotion' = None
               /\ emotion_confidence' = 0
               /\ current_topic' = current_topic
               /\ topic_confidence' = topic_confidence ]_vars

(* The emotion slot was reset while the topic slot held a classification. *)
C19_Witness ==
    /\ ret.op = "reset_emotion"
    /\ current_emotion = None /\ emotion_confidence = 0
    /\ current_topic # None /\ topic_confidence # 0
    /\ recognizer # None

====
